---- MODULE Spec2Model ----
(***************************************************************************)
(* Model of renderer/src/core/instance.rs: the Vulkan instance bootstrap   *)
(* (Instance::new, create_surface, handle, create_device, Drop for         *)
(* Instance) and the debug-utils callback (debug_callback).                *)
(*                                                                         *)
(* The native API and the window capability are the environment: every     *)
(* fallible call draws its outcome (success or one of its error values)    *)
(* nondeterministically.  A successful native creation call returns a      *)
(* fresh non-null handle.  The application is one thread holding at most   *)
(* one Instance value at a time; the driver may invoke debug_callback      *)
(* whenever a messenger is registered.                                     *)
(***************************************************************************)
EXTENDS Integers, Sequences, FiniteSets, TLC

(* ---------------- bounds ---------------- *)
\* number of Instance::new invocations explored
MaxNew == 1
\* number of create_surface and create_device invocations explored
MaxCalls == 2

(* ---------------- values ---------------- *)
\* the null handle of the native API
Null == 0

\* vk::DebugUtilsMessengerEXT::null()
vk_null == Null

\* Option<T>: None is the empty sequence, Some(x) the one-element sequence
None == <<>>

Some(x) == <<x>>

\* error codes a native creation call may return (vk::Result, non-success)
VkErrors == {"ERROR_OUT_OF_HOST_MEMORY", "ERROR_INITIALIZATION_FAILED"}

\* raw_window_handle::HandleError, the error of both window accessors
HandleErrors == {"NotSupported", "Unavailable"}

\* outcome of a native creation call
VkOutcomes == {"SUCCESS"} \cup VkErrors

\* outcome of a window accessor
HandleOutcomes == {"Ok"} \cup HandleErrors

\* InstanceSpec values handed to Instance::new
InstanceSpecs ==
  [app_name : {"test"},
   extensions : {<<"VK_EXT_debug_utils">>},
   layers : {<<"VK_LAYER_KHRONOS_validation">>},
   validation : BOOLEAN]

\* what create_device is asked for: a physical device with the queue family
\* index the caller has resolved for it
DeviceRequests ==
  {[gpu |-> "gpu0", graphics_index |-> 0],
   [gpu |-> "gpu1", graphics_index |-> 1]}

\* bits of vk::DebugUtilsMessageSeverityFlagsEXT; FUTURE stands for any bit
\* outside the four the callback matches on
SeverityBits == {"VERBOSE", "INFO", "WARNING", "ERROR", "FUTURE"}

\* a flags value is the set of its bits; the values the callback is invoked
\* with: each single bit, no bit, and the two-bit mask the messenger is
\* registered with
SeverityValues ==
  {{b} : b \in SeverityBits}
    \cup {{}, {"WARNING", "ERROR"}}

\* p_message of the callback data: a null pointer, or a pointer to a C
\* string, the sequence of its bytes before the terminating zero
NullMessage == <<>>

\* the messages the driver hands over: none, a UTF-8 text of a one-byte and
\* a two-byte character, and a text with a byte that is not UTF-8
Messages == {NullMessage, <<<<118, 195, 169>>>>, <<<<118, 255>>>>}

(* ---------------- trace events ---------------- *)
\* what a native creation call answers: its status and, on success, a handle
Ret(status, handle) ==
  [status |-> status, handle |-> IF status = "SUCCESS" THEN handle ELSE Null]

\* what a call without a result of interest answers
NoRet == [status |-> "SUCCESS", handle |-> Null]

\* a call made to the native API or to the window capability
Call(fn, arg, ret) == [ev |-> "call", fn |-> fn, arg |-> arg, ret |-> ret]

\* a log macro invocation
Log(level, target, text) ==
  [ev |-> "log", fn |-> level, arg |-> [target |-> target, text |-> text],
   ret |-> NoRet]

\* the calls named fn within a trace
RECURSIVE CallsOf(_, _)
CallsOf(tr, fn) ==
  IF tr = <<>> THEN <<>>
  ELSE IF Head(tr).ev = "call" /\ Head(tr).fn = fn
       THEN <<Head(tr)>> \o CallsOf(Tail(tr), fn)
       ELSE CallsOf(Tail(tr), fn)

\* the names of the calls of a trace, in order
RECURSIVE CallNames(_)
CallNames(tr) ==
  IF tr = <<>> THEN <<>>
  ELSE IF Head(tr).ev = "call"
       THEN <<Head(tr).fn>> \o CallNames(Tail(tr))
       ELSE CallNames(Tail(tr))

(* ---------------- the native API's objects ---------------- *)
NativeObject(kind, id, parent) == [kind |-> kind, id |-> id, parent |-> parent]

\* the live native objects after one event: a successful creation call adds
\* its object, a destruction call removes the object it names
NativeAfterEvent(nat, e) ==
  IF e.ev # "call" THEN nat
  ELSE IF e.ret.status # "SUCCESS" THEN nat
  ELSE IF e.fn = "create_instance"
  THEN nat \cup {NativeObject("instance", e.ret.handle, Null)}
  ELSE IF e.fn = "create_debug_utils_messenger"
  THEN nat \cup {NativeObject("messenger", e.ret.handle,
                              e.arg.loader.instance)}
  ELSE IF e.fn = "create_surface"
  THEN nat \cup {NativeObject("surface", e.ret.handle, e.arg)}
  ELSE IF e.fn = "create_device"
  THEN nat \cup {NativeObject("device", e.ret.handle, e.arg.instance)}
  ELSE IF e.fn = "destroy_debug_utils_messenger"
  THEN {o \in nat : ~(o.kind = "messenger" /\ o.id = e.arg.messenger)}
  ELSE IF e.fn = "destroy_instance"
  THEN {o \in nat : ~(o.kind = "instance" /\ o.id = e.arg)}
  ELSE IF e.fn = "destroy_surface"
  THEN {o \in nat : ~(o.kind = "surface" /\ o.id = e.arg)}
  ELSE IF e.fn = "destroy_device"
  THEN {o \in nat : ~(o.kind = "device" /\ o.id = e.arg)}
  ELSE nat

\* the live native objects after a sequence of events
RECURSIVE NativeAfter(_, _)
NativeAfter(nat, events) ==
  IF events = <<>> THEN nat
  ELSE NativeAfter(NativeAfterEvent(nat, Head(events)), Tail(events))

\* the number of objects a sequence of events has had the native API create
RECURSIVE HandlesTaken(_)
HandlesTaken(events) ==
  IF events = <<>> THEN 0
  ELSE (IF NativeAfterEvent({}, Head(events)) # {} THEN 1 ELSE 0)
       + HandlesTaken(Tail(events))

(* ---------------- state ---------------- *)
VARIABLES
  pc,          \* position of the application thread
  locals,      \* locals of the operation in progress
  self_,       \* the Instance value held by the application: None or Some
  surfaces,    \* Surface values held by the application
  devices,     \* Device values held by the application
  native,      \* live native objects: [kind, id, parent]
  nextHandle,  \* next handle the native API hands out
  trace,       \* events of the current (or last) operation, in order
  result,      \* argument and return value of the last returned operation
  cb,          \* last debug_callback invocation: arguments, emission, outcome
  counts,      \* invocations made so far: [new, calls]
  errs,        \* the failures create_surface has returned: [stage, val]
  origin       \* the InstanceSpec each created native instance was made for

vars == <<pc, locals, self_, surfaces, devices, native, nextHandle, trace,
          result, cb, counts, errs, origin>>

NoLocals == [op |-> "none"]

NoResult == [op |-> "none", ok |-> FALSE]

NoCallback == [invoked |-> FALSE]

NativeIds(kind) == {o.id : o \in {x \in native : x.kind = kind}}

Init ==
  /\ pc = "idle"
  /\ locals = NoLocals
  /\ self_ = None
  /\ surfaces = {}
  /\ devices = {}
  /\ native = {}
  /\ nextHandle = 1
  /\ trace = <<>>
  /\ result = NoResult
  /\ cb = NoCallback
  /\ counts = [new |-> 0, calls |-> 0]
  /\ errs = {}
  /\ origin = {}

(* ---------------- Instance::new ---------------- *)
\* vk::ApplicationInfo built from the spec
ApplicationInfo(spec) ==
  [api_version |-> <<0, 1, 3, 0>>, application_name |-> spec.app_name]

\* vk::InstanceCreateInfo built from the spec; its p_next chain is empty
InstanceCreateInfo(spec) ==
  [application_info |-> ApplicationInfo(spec),
   enabled_layer_names |-> spec.layers,
   enabled_extension_names |-> spec.extensions,
   p_next |-> <<>>]

\* severity mask of the messenger descriptor: default() then |= ERROR, WARNING
MessengerSeverity == ({} \cup {"ERROR"}) \cup {"WARNING"}

\* type mask of the messenger descriptor
MessengerType ==
  ((({} \cup {"GENERAL"}) \cup {"VALIDATION"}) \cup {"PERFORMANCE"})
    \cup {"DEVICE_ADDRESS_BINDING"}

\* vk::DebugUtilsMessengerCreateInfoEXT
dbg_info ==
  [message_severity |-> MessengerSeverity,
   message_type |-> MessengerType,
   pfn_user_callback |-> Some("debug_callback")]

\* push_next consumes a copy of the descriptor (the struct is Copy, the
\* method takes self by value) and returns the copy with next put at the
\* head of its chain
push_next(info, next) == [info EXCEPT !.p_next = <<next>> \o @]

\* The descriptor that reaches create_instance.  The binding create_info is
\* immutable; the value push_next returns is bound to _ and dropped, so the
\* descriptor passed on is the one built before the validation test.
PassedCreateInfo(spec) ==
  LET create_info == InstanceCreateInfo(spec)
      discarded == IF spec.validation
                   THEN push_next(create_info, dbg_info)
                   ELSE create_info
  IN  create_info

\* ext::debug_utils::Instance::new(&entry, &instance): function table bound
\* to the instance
DebugUtilsLoader(instance) == [entry |-> "linked", instance |-> instance]

\* the Instance value assembled at the end of new
InstanceValue(instance, dbg_loader, messenger) ==
  [entry |-> "linked", instance |-> instance,
   dbg_loader |-> dbg_loader, messenger |-> messenger]

\* as NewCreateInstanceBody, with the validation flag not looked at after the
\* creation: the messenger is registered in every case
NewCreateInstanceBody_AlwaysMessenger(spec, outcome, handle) ==
  LET create == Call("create_instance", PassedCreateInfo(spec),
                     Ret(outcome, handle))
  IN  IF outcome # "SUCCESS"
      THEN [events |-> <<create>>, returned |-> TRUE, ok |-> FALSE,
            val |-> outcome]
      ELSE [events |-> <<create>>, returned |-> FALSE, ok |-> FALSE,
            val |-> handle]

\* as NewCreateInstanceBody, with the error of create_instance replaced by
\* one fixed error code
NewCreateInstanceBody_ErrorReplaced(spec, outcome, handle) ==
  LET create == Call("create_instance", PassedCreateInfo(spec),
                     Ret(outcome, handle))
  IN  IF outcome # "SUCCESS"
      THEN [events |-> <<create>>, returned |-> TRUE, ok |-> FALSE,
            val |-> "ERROR_OUT_OF_HOST_MEMORY"]
      ELSE IF spec.validation
      THEN [events |-> <<create>>, returned |-> FALSE, ok |-> FALSE,
            val |-> handle]
      ELSE [events |-> <<create>>, returned |-> TRUE, ok |-> TRUE,
            val |-> InstanceValue(handle, None, vk_null)]

\* new up to the validation test after create_instance: the call, then
\* either the error handed back by ?, or the Instance without messenger, or
\* (returned = FALSE) the created handle with which new goes on
NewCreateInstanceBody(spec, outcome, handle) ==
  LET create == Call("create_instance", PassedCreateInfo(spec),
                     Ret(outcome, handle))
  IN  IF outcome # "SUCCESS"
      THEN [events |-> <<create>>, returned |-> TRUE, ok |-> FALSE,
            val |-> outcome]
      ELSE IF spec.validation
      THEN [events |-> <<create>>, returned |-> FALSE, ok |-> FALSE,
            val |-> handle]
      ELSE [events |-> <<create>>, returned |-> TRUE, ok |-> TRUE,
            val |-> InstanceValue(handle, None, vk_null)]

\* as NewMessengerBody, with the handle of the registration not stored
NewMessengerBody_HandleDropped(instance, outcome, handle) ==
  LET loader == DebugUtilsLoader(instance)
      register == Call("create_debug_utils_messenger",
                       [loader |-> loader, info |-> dbg_info],
                       Ret(outcome, handle))
  IN  IF outcome # "SUCCESS"
      THEN [events |-> <<register>>, ok |-> FALSE, val |-> outcome]
      ELSE [events |-> <<register>>, ok |-> TRUE,
            val |-> InstanceValue(instance, Some(loader), vk_null)]

\* as NewMessengerBody, with the outcome of the registration not looked at
NewMessengerBody_ErrorIgnored(instance, outcome, handle) ==
  LET loader == DebugUtilsLoader(instance)
      register == Call("create_debug_utils_messenger",
                       [loader |-> loader, info |-> dbg_info],
                       Ret(outcome, handle))
  IN  [events |-> <<register>>, ok |-> TRUE,
       val |-> InstanceValue(instance, Some(loader), register.ret.handle)]

\* new under validation, after create_instance: load the loader, register
\* the messenger; an error goes back through ?.  The local instance is an
\* ash::Instance, a handle with its function table: leaving its scope
\* releases nothing, only Drop for Instance calls destroy_instance.
NewMessengerBody(instance, outcome, handle) ==
  LET loader == DebugUtilsLoader(instance)
      register == Call("create_debug_utils_messenger",
                       [loader |-> loader, info |-> dbg_info],
                       Ret(outcome, handle))
  IN  IF outcome # "SUCCESS"
      THEN [events |-> <<register>>, ok |-> FALSE, val |-> outcome]
      ELSE [events |-> <<register>>, ok |-> TRUE,
            val |-> InstanceValue(instance, Some(loader), handle)]

NewCreateInstance(spec, outcome) ==
  /\ pc = "idle"
  /\ self_ = None
  /\ counts.new < MaxNew
  /\ counts' = [counts EXCEPT !.new = @ + 1]
  /\ LET r == NewCreateInstanceBody(spec, outcome, nextHandle)
     IN  /\ trace' = r.events
         /\ native' = NativeAfter(native, r.events)
         /\ nextHandle' = nextHandle + HandlesTaken(r.events)
         /\ origin' = origin \cup
               {[instance |-> o.id, spec |-> spec] :
                  o \in {x \in NativeAfter(native, r.events) \ native :
                           x.kind = "instance"}}
         /\ IF r.returned
            THEN /\ result' = [op |-> "new", ok |-> r.ok, arg |-> spec,
                               val |-> r.val]
                 /\ self_' = IF r.ok THEN Some(r.val) ELSE self_
                 /\ UNCHANGED <<pc, locals>>
            ELSE /\ pc' = "new_messenger"
                 /\ locals' = [op |-> "new", spec |-> spec,
                               instance |-> r.val]
                 /\ UNCHANGED <<self_, result>>
  /\ UNCHANGED <<surfaces, devices, cb, errs>>

NewMessenger(outcome) ==
  /\ pc = "new_messenger"
  /\ LET r == NewMessengerBody(locals.instance, outcome, nextHandle)
     IN  /\ trace' = trace \o r.events
         /\ native' = NativeAfter(native, r.events)
         /\ nextHandle' = nextHandle + HandlesTaken(r.events)
         /\ result' = [op |-> "new", ok |-> r.ok, arg |-> locals.spec,
                       val |-> r.val]
         /\ self_' = IF r.ok THEN Some(r.val) ELSE self_
  /\ pc' = "idle"
  /\ locals' = NoLocals
  /\ UNCHANGED <<surfaces, devices, cb, counts, errs, origin>>

(* ---------------- Drop for Instance ---------------- *)
\* as DropMessengerEvents, with the instance destroyed ahead of the messenger
DropMessengerEvents_InstanceFirst(s) ==
  IF s.dbg_loader # None
  THEN <<Log("trace", "", "Destroying vulkan instance"),
         Call("destroy_instance", s.instance, NoRet),
         Log("trace", "", "Destroying validation layer structs"),
         Call("destroy_debug_utils_messenger",
              [loader |-> s.dbg_loader[1], messenger |-> s.messenger],
              NoRet)>>
  ELSE <<>>

\* as DropMessengerEvents, with the messenger destroyed whether or not a
\* loader is held
DropMessengerEvents_Unconditional(s) ==
  <<Log("trace", "", "Destroying validation layer structs"),
    Call("destroy_debug_utils_messenger",
         [loader |-> DebugUtilsLoader(s.instance), messenger |-> s.messenger],
         NoRet)>>

\* lines 121-124: the messenger is destroyed through its loader when the
\* loader is present
DropMessengerEvents(s) ==
  IF s.dbg_loader # None
  THEN <<Log("trace", "", "Destroying validation layer structs"),
         Call("destroy_debug_utils_messenger",
              [loader |-> s.dbg_loader[1], messenger |-> s.messenger],
              NoRet)>>
  ELSE <<>>

\* lines 125-126: the instance is destroyed
DropInstanceEvents(s) ==
  <<Log("trace", "", "Destroying vulkan instance"),
    Call("destroy_instance", s.instance, NoRet)>>

\* drop, first half (lines 120-124)
DropMessenger ==
  /\ pc = "idle"
  /\ self_ # None
  /\ LET s == self_[1]
     IN  /\ trace' = DropMessengerEvents(s)
         /\ native' = NativeAfter(native, DropMessengerEvents(s))
         /\ locals' = [op |-> "drop", self |-> s]
  /\ pc' = "drop_instance"
  /\ UNCHANGED <<self_, surfaces, devices, nextHandle, result, cb, counts,
                 errs, origin>>

\* drop, second half (lines 125-127); the value is gone afterwards
DropInstance ==
  /\ pc = "drop_instance"
  /\ LET s == locals.self
     IN  /\ trace' = trace \o DropInstanceEvents(s)
         /\ native' = NativeAfter(native, DropInstanceEvents(s))
         /\ result' = [op |-> "drop", ok |-> TRUE, arg |-> s, val |-> Null]
  /\ self_' = None
  /\ pc' = "idle"
  /\ locals' = NoLocals
  /\ UNCHANGED <<surfaces, devices, nextHandle, cb, counts, errs, origin>>

(* ---------------- Instance::create_surface ---------------- *)
\* Box<dyn Error>: the boxed error keeps the concrete type and the value of
\* the error it was made from, and nothing else
Box(type, value) == [type |-> type, value |-> value]

\* khr::surface::Instance::new(&entry, &instance)
SurfaceLoader(instance) == [entry |-> "linked", instance |-> instance]

\* windows handed to create_surface: how each accessor and the native
\* creation would answer.  Every pair of accessor answers is there; the
\* answer of the native creation varies for the windows whose handles are
\* both available, the only ones it can be asked for.
Windows ==
  {w \in [window_handle : HandleOutcomes, display_handle : HandleOutcomes,
           create_surface : VkOutcomes] :
     (w.window_handle # "Ok" \/ w.display_handle # "Ok") =>
       w.create_surface = "SUCCESS"}

\* as CreateSurfaceBody, with the display handle asked for ahead of the
\* window handle
CreateSurfaceBody_DisplayFirst(s, window, handle) ==
  LET loader == SurfaceLoader(s.instance)
      rwh == Call("window_handle", Null, Ret(window.window_handle, Null))
      rdh == Call("display_handle", Null, Ret(window.display_handle, Null))
      create == Call("create_surface", s.instance,
                     Ret(window.create_surface, handle))
  IN  IF window.display_handle # "Ok"
      THEN [events |-> <<rdh>>, ok |-> FALSE, stage |-> "display_handle",
            val |-> Box("HandleError", window.display_handle)]
      ELSE IF window.window_handle # "Ok"
      THEN [events |-> <<rdh, rwh>>, ok |-> FALSE,
            stage |-> "window_handle",
            val |-> Box("HandleError", window.window_handle)]
      ELSE IF window.create_surface # "SUCCESS"
      THEN [events |-> <<rdh, rwh, create>>, ok |-> FALSE,
            stage |-> "create_surface",
            val |-> Box("vk::Result", window.create_surface)]
      ELSE [events |-> <<rdh, rwh, create>>, ok |-> TRUE, stage |-> "none",
            val |-> [loader |-> loader, surface |-> handle]]

\* as CreateSurfaceBody, with a failed native creation reported as an
\* unavailable handle
CreateSurfaceBody_NativeAsHandleError(s, window, handle) ==
  LET loader == SurfaceLoader(s.instance)
      rwh == Call("window_handle", Null, Ret(window.window_handle, Null))
      rdh == Call("display_handle", Null, Ret(window.display_handle, Null))
      create == Call("create_surface", s.instance,
                     Ret(window.create_surface, handle))
  IN  IF window.window_handle # "Ok"
      THEN [events |-> <<rwh>>, ok |-> FALSE, stage |-> "window_handle",
            val |-> Box("HandleError", window.window_handle)]
      ELSE IF window.display_handle # "Ok"
      THEN [events |-> <<rwh, rdh>>, ok |-> FALSE,
            stage |-> "display_handle",
            val |-> Box("HandleError", window.display_handle)]
      ELSE IF window.create_surface # "SUCCESS"
      THEN [events |-> <<rwh, rdh, create>>, ok |-> FALSE,
            stage |-> "create_surface",
            val |-> Box("HandleError", "Unavailable")]
      ELSE [events |-> <<rwh, rdh, create>>, ok |-> TRUE, stage |-> "none",
            val |-> [loader |-> loader, surface |-> handle]]

\* Body of create_surface on an Instance s, for a window whose accessors and
\* whose native surface creation answer as window says; handle is the
\* surface a successful creation returns.  stage names the ? that returned.
CreateSurfaceBody(s, window, handle) ==
  LET loader == SurfaceLoader(s.instance)
      rwh == Call("window_handle", Null, Ret(window.window_handle, Null))
      rdh == Call("display_handle", Null, Ret(window.display_handle, Null))
      create == Call("create_surface", s.instance,
                     Ret(window.create_surface, handle))
  IN  IF window.window_handle # "Ok"
      THEN [events |-> <<rwh>>, ok |-> FALSE, stage |-> "window_handle",
            val |-> Box("HandleError", window.window_handle)]
      ELSE IF window.display_handle # "Ok"
      THEN [events |-> <<rwh, rdh>>, ok |-> FALSE,
            stage |-> "display_handle",
            val |-> Box("HandleError", window.display_handle)]
      ELSE IF window.create_surface # "SUCCESS"
      THEN [events |-> <<rwh, rdh, create>>, ok |-> FALSE,
            stage |-> "create_surface",
            val |-> Box("vk::Result", window.create_surface)]
      ELSE [events |-> <<rwh, rdh, create>>, ok |-> TRUE, stage |-> "none",
            val |-> [loader |-> loader, surface |-> handle]]

CreateSurface(window) ==
  /\ pc = "idle"
  /\ self_ # None
  /\ counts.calls < MaxCalls
  /\ counts' = [counts EXCEPT !.calls = @ + 1]
  /\ LET r == CreateSurfaceBody(self_[1], window, nextHandle)
     IN  /\ trace' = r.events
         /\ native' = NativeAfter(native, r.events)
         /\ nextHandle' = nextHandle + HandlesTaken(r.events)
         /\ result' = [op |-> "create_surface", ok |-> r.ok, arg |-> window,
                       val |-> r.val, stage |-> r.stage]
         /\ surfaces' = IF r.ok THEN surfaces \cup {r.val} ELSE surfaces
         /\ errs' = IF r.ok THEN errs
                    ELSE errs \cup {[stage |-> r.stage, val |-> r.val]}
  /\ UNCHANGED <<pc, locals, self_, devices, cb, origin>>

(* ---------------- Instance::handle ---------------- *)
Handle ==
  /\ pc = "idle"
  /\ self_ # None
  /\ trace' = <<>>
  /\ result' = [op |-> "handle", ok |-> TRUE, arg |-> Null,
                val |-> self_[1].instance]
  /\ UNCHANGED <<pc, locals, self_, surfaces, devices, native, nextHandle,
                 cb, counts, errs, origin>>

(* ---------------- Instance::create_device ---------------- *)
\* vk::DeviceQueueCreateInfo: one queue of the family at priority 1.0
DeviceQueueCreateInfo(graphics_index) ==
  [queue_family_index |-> graphics_index, queue_priorities |-> <<"1.0">>]

\* vk::DeviceCreateInfo
DeviceCreateInfo(graphics_index, extensions) ==
  [enabled_extension_names |-> extensions,
   queue_create_infos |-> <<DeviceQueueCreateInfo(graphics_index)>>]

\* the handle get_device_queue returns for a queue of a logical device: a
\* non-null handle fixed by the device, the family and the queue index
DeviceQueue(device, family, index) == device * 100 + family * 10 + index + 1

\* as CreateDeviceBody, with the queue asked for in family 0 whatever the
\* family the device was created with
CreateDeviceBody_FamilyZero(s, gpu, graphics_index, extensions, outcome, handle) ==
  LET create == Call("create_device",
                     [instance |-> s.instance, gpu |-> gpu,
                      info |-> DeviceCreateInfo(graphics_index, extensions)],
                     Ret(outcome, handle))
      graphics == DeviceQueue(handle, 0, 0)
      getq == Call("get_device_queue",
                   [device |-> handle, family |-> 0, index |-> 0],
                   [status |-> "SUCCESS", handle |-> graphics])
  IN  IF outcome # "SUCCESS"
      THEN [events |-> <<create>>, ok |-> FALSE, val |-> outcome]
      ELSE [events |-> <<create, getq>>, ok |-> TRUE,
            val |-> [gpu |-> gpu, handle |-> handle, graphics |-> graphics,
                     graphics_index |-> graphics_index]]

\* as CreateDeviceBody, with the queue retrieved before the outcome of the
\* creation is looked at
CreateDeviceBody_QueueFirst(s, gpu, graphics_index, extensions, outcome, handle) ==
  LET create == Call("create_device",
                     [instance |-> s.instance, gpu |-> gpu,
                      info |-> DeviceCreateInfo(graphics_index, extensions)],
                     Ret(outcome, handle))
      graphics == DeviceQueue(handle, graphics_index, 0)
      getq == Call("get_device_queue",
                   [device |-> handle, family |-> graphics_index,
                    index |-> 0],
                   [status |-> "SUCCESS", handle |-> graphics])
  IN  IF outcome # "SUCCESS"
      THEN [events |-> <<create, getq>>, ok |-> FALSE, val |-> outcome]
      ELSE [events |-> <<create, getq>>, ok |-> TRUE,
            val |-> [gpu |-> gpu, handle |-> handle, graphics |-> graphics,
                     graphics_index |-> graphics_index]]

\* as CreateDeviceBody, with the Instance taken by value, so that it is
\* dropped when create_device returns
CreateDeviceBody_ConsumesInstance(s, gpu, graphics_index, extensions, outcome, handle) ==
  LET create == Call("create_device",
                     [instance |-> s.instance, gpu |-> gpu,
                      info |-> DeviceCreateInfo(graphics_index, extensions)],
                     Ret(outcome, handle))
      graphics == DeviceQueue(handle, graphics_index, 0)
      getq == Call("get_device_queue",
                   [device |-> handle, family |-> graphics_index,
                    index |-> 0],
                   [status |-> "SUCCESS", handle |-> graphics])
      dropped == DropMessengerEvents(s) \o DropInstanceEvents(s)
  IN  IF outcome # "SUCCESS"
      THEN [events |-> <<create>> \o dropped, ok |-> FALSE, val |-> outcome]
      ELSE [events |-> <<create, getq>> \o dropped, ok |-> TRUE,
            val |-> [gpu |-> gpu, handle |-> handle, graphics |-> graphics,
                     graphics_index |-> graphics_index]]

\* Body of create_device on an Instance s; handle is the logical device a
\* successful creation returns
CreateDeviceBody(s, gpu, graphics_index, extensions, outcome, handle) ==
  LET create == Call("create_device",
                     [instance |-> s.instance, gpu |-> gpu,
                      info |-> DeviceCreateInfo(graphics_index, extensions)],
                     Ret(outcome, handle))
      graphics == DeviceQueue(handle, graphics_index, 0)
      getq == Call("get_device_queue",
                   [device |-> handle, family |-> graphics_index,
                    index |-> 0],
                   [status |-> "SUCCESS", handle |-> graphics])
  IN  IF outcome # "SUCCESS"
      THEN [events |-> <<create>>, ok |-> FALSE, val |-> outcome]
      ELSE [events |-> <<create, getq>>, ok |-> TRUE,
            val |-> [gpu |-> gpu, handle |-> handle, graphics |-> graphics,
                     graphics_index |-> graphics_index]]

\* extension lists handed to create_device
DeviceExtensions == {<<"VK_KHR_swapchain">>}

CreateDevice(gpu, graphics_index, extensions, outcome) ==
  /\ pc = "idle"
  /\ self_ # None
  /\ counts.calls < MaxCalls
  /\ counts' = [counts EXCEPT !.calls = @ + 1]
  /\ LET r == CreateDeviceBody(self_[1], gpu, graphics_index, extensions,
                               outcome, nextHandle)
     IN  /\ trace' = r.events
         /\ native' = NativeAfter(native, r.events)
         /\ nextHandle' = nextHandle + HandlesTaken(r.events)
         /\ result' = [op |-> "create_device", ok |-> r.ok,
                       arg |-> [gpu |-> gpu,
                                graphics_index |-> graphics_index,
                                extensions |-> extensions],
                       val |-> r.val]
         /\ devices' = IF r.ok THEN devices \cup {r.val} ELSE devices
  /\ UNCHANGED <<pc, locals, self_, surfaces, cb, errs, origin>>

(* ---------------- dependents' teardown ---------------- *)
\* a Surface owns its native surface and destroys it when dropped
DropSurface(sf) ==
  /\ pc = "idle"
  /\ sf \in surfaces
  /\ surfaces' = surfaces \ {sf}
  /\ trace' = <<Call("destroy_surface", sf.surface, NoRet)>>
  /\ native' = NativeAfter(native, trace')
  /\ result' = [op |-> "drop_surface", ok |-> TRUE, arg |-> sf, val |-> Null]
  /\ UNCHANGED <<pc, locals, self_, devices, nextHandle, cb, counts, errs,
                 origin>>

\* a Device owns its logical device and destroys it when dropped
DropDevice(dv) ==
  /\ pc = "idle"
  /\ dv \in devices
  /\ devices' = devices \ {dv}
  /\ trace' = <<Call("destroy_device", dv.handle, NoRet)>>
  /\ native' = NativeAfter(native, trace')
  /\ result' = [op |-> "drop_device", ok |-> TRUE, arg |-> dv, val |-> Null]
  /\ UNCHANGED <<pc, locals, self_, surfaces, nextHandle, cb, counts, errs,
                 origin>>

(* ---------------- debug_callback ---------------- *)
\* U+FFFD, which to_string_lossy puts in the place of bytes that are not
\* UTF-8
ReplacementCharacter == 65533

\* CStr::to_string_lossy on texts of one- and two-byte sequences: the text as
\* a sequence of code points.  A byte below 128 is its own code point; a
\* lead byte 0xC2..0xDF followed by a continuation byte 0x80..0xBF is one
\* code point; any other byte is replaced by U+FFFD and decoding goes on
\* with the byte after it.
RECURSIVE to_string_lossy(_)
to_string_lossy(bytes) ==
  IF bytes = <<>> THEN <<>>
  ELSE IF Head(bytes) < 128
  THEN <<Head(bytes)>> \o to_string_lossy(Tail(bytes))
  ELSE IF /\ Head(bytes) \in 194..223
          /\ Len(bytes) >= 2
          /\ bytes[2] \in 128..191
  THEN <<(Head(bytes) - 192) * 64 + (bytes[2] - 128)>>
         \o to_string_lossy(Tail(Tail(bytes)))
  ELSE <<ReplacementCharacter>> \o to_string_lossy(Tail(bytes))

\* as MessageText, with the pointer read without the null test: a null
\* pointer yields whatever text lies at address zero
MessageText_NoNullTest(p_message) ==
  IF p_message = NullMessage THEN to_string_lossy(<<118>>)
  ELSE to_string_lossy(p_message[1])

\* lines 136-141: a null p_message is read as the empty string, any other as
\* the lossy decoding of the C string it points to
MessageText(p_message) ==
  IF p_message = NullMessage THEN <<>> ELSE to_string_lossy(p_message[1])

\* as CallbackBody, with a catch-all arm that logs at a default level
CallbackBody_DefaultArm(message_severity, p_message) ==
  LET message == MessageText(p_message)
  IN  IF message_severity = {"VERBOSE"}
      THEN [emitted |-> <<Log("trace", "renderer", message)>>,
            returns |-> "FALSE"]
      ELSE IF message_severity = {"INFO"}
      THEN [emitted |-> <<Log("info", "renderer", message)>>,
            returns |-> "FALSE"]
      ELSE IF message_severity = {"WARNING"}
      THEN [emitted |-> <<Log("warn", "renderer", message)>>,
            returns |-> "FALSE"]
      ELSE IF message_severity = {"ERROR"}
      THEN [emitted |-> <<Log("error", "renderer", message)>>,
            returns |-> "FALSE"]
      ELSE [emitted |-> <<Log("info", "renderer", message)>>,
            returns |-> "FALSE"]

\* as CallbackBody, with the error arm telling the driver to abort its call
CallbackBody_AbortOnError(message_severity, p_message) ==
  LET message == MessageText(p_message)
  IN  IF message_severity = {"VERBOSE"}
      THEN [emitted |-> <<Log("trace", "renderer", message)>>,
            returns |-> "FALSE"]
      ELSE IF message_severity = {"INFO"}
      THEN [emitted |-> <<Log("info", "renderer", message)>>,
            returns |-> "FALSE"]
      ELSE IF message_severity = {"WARNING"}
      THEN [emitted |-> <<Log("warn", "renderer", message)>>,
            returns |-> "FALSE"]
      ELSE IF message_severity = {"ERROR"}
      THEN [emitted |-> <<Log("error", "renderer", message)>>,
            returns |-> "TRUE"]
      ELSE [emitted |-> <<>>, returns |-> "panic"]

\* as CallbackBody, with the info arm logging at the level of the verbose arm
CallbackBody_InfoAsTrace(message_severity, p_message) ==
  LET message == MessageText(p_message)
  IN  IF message_severity = {"VERBOSE"}
      THEN [emitted |-> <<Log("trace", "renderer", message)>>,
            returns |-> "FALSE"]
      ELSE IF message_severity = {"INFO"}
      THEN [emitted |-> <<Log("trace", "renderer", message)>>,
            returns |-> "FALSE"]
      ELSE IF message_severity = {"WARNING"}
      THEN [emitted |-> <<Log("warn", "renderer", message)>>,
            returns |-> "FALSE"]
      ELSE IF message_severity = {"ERROR"}
      THEN [emitted |-> <<Log("error", "renderer", message)>>,
            returns |-> "FALSE"]
      ELSE [emitted |-> <<>>, returns |-> "panic"]

\* as CallbackBody, with a text that was the last one logged not logged again
CallbackBody_Deduplicated(message_severity, p_message) ==
  LET message == MessageText(p_message)
      level == IF message_severity = {"VERBOSE"} THEN "trace"
               ELSE IF message_severity = {"INFO"} THEN "info"
               ELSE IF message_severity = {"WARNING"} THEN "warn"
               ELSE "error"
  IN  IF message_severity \notin {{"VERBOSE"}, {"INFO"}, {"WARNING"},
                                  {"ERROR"}}
      THEN [emitted |-> <<>>, returns |-> "panic"]
      ELSE IF /\ cb.invoked
              /\ cb.emitted # <<>>
              /\ cb.emitted[1].arg.text = message
      THEN [emitted |-> <<>>, returns |-> "FALSE"]
      ELSE [emitted |-> <<Log(level, "renderer", message)>>,
            returns |-> "FALSE"]

\* lines 143-159: the match on the severity value.  A value equal to one of
\* the four single-bit constants logs at that constant's level and the
\* callback returns FALSE; any other value reaches unreachable!(), a panic.
CallbackBody(message_severity, p_message) ==
  LET message == MessageText(p_message)
  IN  IF message_severity = {"VERBOSE"}
      THEN [emitted |-> <<Log("trace", "renderer", message)>>,
            returns |-> "FALSE"]
      ELSE IF message_severity = {"INFO"}
      THEN [emitted |-> <<Log("info", "renderer", message)>>,
            returns |-> "FALSE"]
      ELSE IF message_severity = {"WARNING"}
      THEN [emitted |-> <<Log("warn", "renderer", message)>>,
            returns |-> "FALSE"]
      ELSE IF message_severity = {"ERROR"}
      THEN [emitted |-> <<Log("error", "renderer", message)>>,
            returns |-> "FALSE"]
      ELSE [emitted |-> <<>>, returns |-> "panic"]

\* The driver invokes the callback of a registered messenger.  A panic does
\* not come back to the caller: the process goes no further.
DebugCallback(message_severity, p_message) ==
  /\ pc # "terminated"
  /\ NativeIds("messenger") # {}
  /\ LET r == CallbackBody(message_severity, p_message)
     IN  /\ cb' = [invoked |-> TRUE, message_severity |-> message_severity,
                   p_message |-> p_message, emitted |-> r.emitted,
                   returns |-> r.returns]
         /\ pc' = IF r.returns = "panic" THEN "terminated" ELSE pc
  /\ UNCHANGED <<locals, self_, surfaces, devices, native, nextHandle, trace,
                 result, counts, errs, origin>>

(* ---------------- specification ---------------- *)
Next ==
  \/ \E spec \in InstanceSpecs, outcome \in VkOutcomes :
        NewCreateInstance(spec, outcome)
  \/ \E outcome \in VkOutcomes : NewMessenger(outcome)
  \/ DropMessenger
  \/ DropInstance
  \/ \E window \in Windows : CreateSurface(window)
  \/ Handle
  \/ \E request \in DeviceRequests, extensions \in DeviceExtensions,
        outcome \in VkOutcomes :
        CreateDevice(request.gpu, request.graphics_index, extensions, outcome)
  \/ \E sf \in surfaces : DropSurface(sf)
  \/ \E dv \in devices : DropDevice(dv)
  \/ \E message_severity \in SeverityValues, p_message \in Messages :
        DebugCallback(message_severity, p_message)

Spec == Init /\ [][Next]_vars

(* ---------------- reading the state ---------------- *)
\* the operation the trace belongs to: the one in progress, else the last
\* one that returned
TraceOp == IF locals.op # "none" THEN locals.op ELSE result.op

\* no operation is in progress and the last one to return was op, so that
\* result and trace are both that invocation's
Returned(op) == locals.op = "none" /\ result.op = op

\* the InstanceSpec of the invocation of new the trace belongs to
NewSpec == IF locals.op = "new" THEN locals.spec ELSE result.arg

\* the native instance h was created by a new that was asked for validation
MadeWithValidation(h) ==
  \E o \in origin : o.instance = h /\ o.spec.validation

\* the native instance h was created by a new that was not
MadeWithoutValidation(h) ==
  \E o \in origin : o.instance = h /\ ~o.spec.validation

\* the four severity values the callback matches on
DefinedSeverities == {{"VERBOSE"}, {"INFO"}, {"WARNING"}, {"ERROR"}}

(* ---------------- C1 ---------------- *)
\* C1: in Instance::new with the validation flag true, the descriptor handed
\* to create_instance has the messenger descriptor in its p_next chain.
C1_MessengerChained ==
  (TraceOp = "new" /\ NewSpec.validation) =>
    \A i \in 1..Len(trace) :
      (trace[i].ev = "call" /\ trace[i].fn = "create_instance") =>
        \E j \in 1..Len(trace[i].arg.p_next) :
          trace[i].arg.p_next[j] = dbg_info

(* ---------------- C2 ---------------- *)
\* C2: when new has created the native instance and the messenger
\* registration fails, new returns that error and the native instance it
\* created has been destroyed.
C2_NoLeakOnMessengerFailure ==
  (Returned("new") /\ ~result.ok
     /\ CallsOf(trace, "create_debug_utils_messenger") # <<>>) =>
    /\ result.val
         = CallsOf(trace, "create_debug_utils_messenger")[1].ret.status
    /\ \A i \in 1..Len(trace) :
         (trace[i].ev = "call" /\ trace[i].fn = "create_instance") =>
           trace[i].ret.handle \notin NativeIds("instance")

(* ---------------- C3 ---------------- *)
\* C3: dropping an Instance made with validation issues destroy-messenger
\* and then destroy-instance, each once, for that Instance's own handles;
\* between the two calls the messenger is gone and the instance still there.
C3_MessengerBeforeInstance ==
  /\ (locals.op = "drop" /\ MadeWithValidation(locals.self.instance)) =>
       /\ CallNames(trace) = <<"destroy_debug_utils_messenger">>
       /\ CallsOf(trace, "destroy_debug_utils_messenger")[1].arg.messenger
            = locals.self.messenger
       /\ locals.self.messenger \notin NativeIds("messenger")
       /\ locals.self.instance \in NativeIds("instance")
  /\ (Returned("drop") /\ MadeWithValidation(result.arg.instance)) =>
       /\ CallNames(trace)
            = <<"destroy_debug_utils_messenger", "destroy_instance">>
       /\ CallsOf(trace, "destroy_debug_utils_messenger")[1].arg.messenger
            = result.arg.messenger
       /\ CallsOf(trace, "destroy_instance")[1].arg = result.arg.instance
       /\ result.arg.messenger \notin NativeIds("messenger")
       /\ result.arg.instance \notin NativeIds("instance")

\* an Instance made with validation has been dropped
C3_Witness ==
  /\ Returned("drop")
  /\ MadeWithValidation(result.arg.instance)
  /\ Len(CallsOf(trace, "destroy_debug_utils_messenger")) = 1

(* ---------------- C4 ---------------- *)
\* the native surfaces and devices whose Surface or Device value is held
LiveDependents ==
  {o \in native :
     \/ o.kind = "surface" /\ \E sf \in surfaces : sf.surface = o.id
     \/ o.kind = "device" /\ \E dv \in devices : dv.handle = o.id}

\* C4: no state has a live Surface or Device whose Instance was destroyed.
C4_DependentsBeforeInstance ==
  \A o \in LiveDependents : o.parent \in NativeIds("instance")

C7_ValidationHasMessenger ==
  /\ (Returned("new") /\ result.ok /\ result.arg.validation) =>
       /\ self_ = Some(result.val)
       /\ CallNames(trace)
            = <<"create_instance", "create_debug_utils_messenger">>
       /\ result.val.instance = trace[1].ret.handle
       /\ result.val.dbg_loader = Some(trace[2].arg.loader)
       /\ trace[2].arg.loader.instance = result.val.instance
       /\ result.val.messenger = trace[2].ret.handle
       /\ result.val.messenger # Null
  /\ (self_ # None /\ locals.op # "drop") =>
       /\ (self_[1].dbg_loader # None) <=> (self_[1].messenger # Null)
       /\ (self_[1].dbg_loader # None) <=>
            (NativeObject("messenger", self_[1].messenger, self_[1].instance)
               \in native)

\* new has returned an Instance under validation
C7_Witness ==
  /\ Returned("new")
  /\ result.ok
  /\ result.arg.validation
  /\ self_ # None

(* ---------------- C8 ---------------- *)
\* C8: an Instance returned by new without validation has no loader and the
\* null messenger handle, and a new without validation never makes the
\* registration call.
C8_NoValidationNoMessenger ==
  /\ (Returned("new") /\ result.ok /\ ~result.arg.validation) =>
       /\ self_ = Some(result.val)
       /\ result.val.dbg_loader = None
       /\ result.val.messenger = Null
  /\ (TraceOp = "new" /\ ~NewSpec.validation) =>
       /\ locals.op = "none"
       /\ CallsOf(trace, "create_debug_utils_messenger") = <<>>
  /\ \A o \in native :
       o.kind = "messenger" => ~MadeWithoutValidation(o.parent)

\* new has returned an Instance without validation
C8_Witness ==
  /\ Returned("new")
  /\ result.ok
  /\ ~result.arg.validation
  /\ self_ # None

(* ---------------- C9 ---------------- *)
\* C9: a new whose create_instance call fails returns at once with exactly
\* the error of that call: create_instance is its only call, and the native
\* objects, the handles given out and the application's values are as they
\* were before.
C9_CreateFailureReturnsError ==
  [][(counts'.new # counts.new /\ trace'[1].ret.status # "SUCCESS") =>
       /\ Len(trace') = 1
       /\ trace'[1].fn = "create_instance"
       /\ locals' = NoLocals
       /\ result'.op = "new"
       /\ ~result'.ok
       /\ result'.val = trace'[1].ret.status
       /\ native' = native
       /\ nextHandle' = nextHandle
       /\ self_' = self_
       /\ pc' = pc]_vars

\* new has returned the error of a failed create_instance
C9_Witness ==
  /\ Returned("new")
  /\ ~result.ok
  /\ CallNames(trace) = <<"create_instance">>
  /\ result.val = "ERROR_INITIALIZATION_FAILED"

(* ---------------- C10 ---------------- *)
\* C10: invoked with a severity value that is not one of the four defined
\* ones, the callback logs nothing and does not return: it panics.
C10_UnknownSeverityIsFatal ==
  (cb.invoked /\ cb.message_severity \notin DefinedSeverities) =>
    /\ cb.emitted = <<>>
    /\ cb.returns = "panic"
    /\ pc = "terminated"

\* the callback has been invoked with two severity bits at once
C10_Witness ==
  /\ cb.invoked
  /\ cb.message_severity = {"WARNING", "ERROR"}

(* ---------------- C11 ---------------- *)
\* C11: the callback never tells its caller to abort the driver call: every
\* invocation that returns returns FALSE, and an invocation with any of the
\* four defined severities does return.
C11_ReturnsFalse ==
  cb.invoked =>
    /\ cb.returns # "panic" => cb.returns = "FALSE"
    /\ cb.message_severity \in DefinedSeverities => cb.returns = "FALSE"

\* the callback has returned from an invocation with the error severity
C11_Witness ==
  /\ cb.invoked
  /\ cb.message_severity = {"ERROR"}
  /\ cb.returns = "FALSE"

(* ---------------- C12 ---------------- *)
\* the log level the callback is to use for a defined severity
LevelFor(message_severity) ==
  IF message_severity = {"VERBOSE"} THEN "trace"
  ELSE IF message_severity = {"INFO"} THEN "info"
  ELSE IF message_severity = {"WARNING"} THEN "warn"
  ELSE "error"

\* C12: for each of the four defined severities the callback emits exactly
\* one log entry, with the target "renderer" and the level verbose -> trace,
\* info -> info, warning -> warn, error -> error, which is the level of no
\* other severity.
C12_SeverityToLevel ==
  (cb.invoked /\ cb.message_severity \in DefinedSeverities) =>
    /\ Len(cb.emitted) = 1
    /\ cb.emitted[1].ev = "log"
    /\ cb.emitted[1].arg.target = "renderer"
    /\ cb.emitted[1].fn = LevelFor(cb.message_severity)
    /\ \A other \in DefinedSeverities \ {cb.message_severity} :
         cb.emitted[1].fn # LevelFor(other)

\* the callback has logged a warning
C12_Witness ==
  /\ cb.invoked
  /\ cb.message_severity = {"WARNING"}
  /\ Len(cb.emitted) = 1
  /\ cb.emitted[1].fn = "warn"

(* ---------------- C13 ---------------- *)
\* the UTF-8 bytes of a text of code points below 2048, or of U+FFFD
RECURSIVE Utf8(_)
Utf8(text) ==
  IF text = <<>> THEN <<>>
  ELSE (IF Head(text) < 128 THEN <<Head(text)>>
        ELSE IF Head(text) < 2048
        THEN <<192 + (Head(text) \div 64), 128 + (Head(text) % 64)>>
        ELSE <<239, 191, 189>>)
       \o Utf8(Tail(text))

\* the bytes are UTF-8 made of one- and two-byte sequences
RECURSIVE ValidUtf8(_)
ValidUtf8(bytes) ==
  \/ bytes = <<>>
  \/ Head(bytes) < 128 /\ ValidUtf8(Tail(bytes))
  \/ /\ Len(bytes) >= 2
     /\ Head(bytes) \in 194..223
     /\ bytes[2] \in 128..191
     /\ ValidUtf8(Tail(Tail(bytes)))

\* the bytes of a C string that belong to one- and two-byte UTF-8 sequences
RECURSIVE ValidPart(_)
ValidPart(bytes) ==
  IF bytes = <<>> THEN <<>>
  ELSE IF Head(bytes) < 128 THEN <<Head(bytes)>> \o ValidPart(Tail(bytes))
  ELSE IF /\ Len(bytes) >= 2
          /\ Head(bytes) \in 194..223
          /\ bytes[2] \in 128..191
  THEN <<bytes[1], bytes[2]>> \o ValidPart(Tail(Tail(bytes)))
  ELSE ValidPart(Tail(bytes))

\* a text without its U+FFFD
WithoutReplacement(text) ==
  SelectSeq(text, LAMBDA c : c # ReplacementCharacter)

\* the text of the log entry the last invocation emitted
EmittedText == cb.emitted[1].arg.text

\* C13 as claimed: with a null text pointer the emitted text is the empty
\* string; with a non-null one the emitted text is the driver's text, byte
\* for byte.
C13_TextIsDriverText ==
  (cb.invoked /\ cb.emitted # <<>>) =>
    IF cb.p_message = NullMessage THEN EmittedText = <<>>
    ELSE Utf8(EmittedText) = cb.p_message[1]

\* C13 as amended: with a null text pointer the emitted text is the empty
\* string; with a non-null one the emitted text is the driver's text when
\* that is UTF-8, and otherwise the driver's text with one U+FFFD for each
\* byte that is not UTF-8, so that it is no longer the driver's bytes.
C13_TextIsLossyDriverText ==
  (cb.invoked /\ cb.emitted # <<>>) =>
    IF cb.p_message = NullMessage THEN EmittedText = <<>>
    ELSE IF ValidUtf8(cb.p_message[1])
    THEN /\ Utf8(EmittedText) = cb.p_message[1]
         /\ \A i \in 1..Len(EmittedText) :
              EmittedText[i] # ReplacementCharacter
    ELSE /\ Utf8(EmittedText) # cb.p_message[1]
         /\ Utf8(WithoutReplacement(EmittedText)) = ValidPart(cb.p_message[1])
         /\ Len(EmittedText) - Len(WithoutReplacement(EmittedText))
              = Len(cb.p_message[1]) - Len(ValidPart(cb.p_message[1]))

\* the callback has logged for a null text pointer
C13_Witness ==
  /\ cb.invoked
  /\ cb.emitted # <<>>
  /\ cb.p_message = NullMessage

(* ---------------- C14 ---------------- *)
\* C14: a create_device that succeeds returns the Device of the physical
\* device and the family index it was given, holding the logical device the
\* native call created and the non-null queue handle that get_device_queue
\* gave for queue 0 of that family of that logical device.
C14_DeviceOfRequest ==
  (Returned("create_device") /\ result.ok) =>
    /\ CallNames(trace) = <<"create_device", "get_device_queue">>
    /\ trace[1].arg.gpu = result.arg.gpu
    /\ result.val.gpu = result.arg.gpu
    /\ result.val.graphics_index = result.arg.graphics_index
    /\ result.val.handle = trace[1].ret.handle
    /\ trace[2].arg = [device |-> result.val.handle,
                       family |-> result.arg.graphics_index, index |-> 0]
    /\ result.val.graphics = trace[2].ret.handle
    /\ result.val.graphics # Null
    /\ result.val \in devices

\* create_device has returned a Device for family index 1
C14_Witness ==
  /\ Returned("create_device")
  /\ result.ok
  /\ result.arg.graphics_index = 1

(* ---------------- C15 ---------------- *)
\* C15: a create_device whose native creation fails returns exactly the
\* error of that call, has made no other call, has created no native
\* object, and leaves no Device behind: every Device held and every native
\* device stem from a creation that succeeded.
C15_DeviceFailureReturnsError ==
  /\ (Returned("create_device") /\ trace[1].ret.status # "SUCCESS") =>
       /\ ~result.ok
       /\ result.val = trace[1].ret.status
       /\ CallNames(trace) = <<"create_device">>
       /\ HandlesTaken(trace) = 0
  /\ \A o \in native :
       o.kind = "device" => \E dv \in devices : dv.handle = o.id
  /\ \A dv \in devices : dv.handle # Null

\* create_device has returned the error of a failed native creation
C15_Witness ==
  /\ Returned("create_device")
  /\ ~result.ok
  /\ result.val = "ERROR_INITIALIZATION_FAILED"

(* ---------------- C16 ---------------- *)
\* the calls of new, create_surface and create_device that can fail
FallibleCalls ==
  {"create_instance", "create_debug_utils_messenger", "window_handle",
   "display_handle", "create_surface", "create_device"}

\* the event is a call that answered a failure
Failed(e) == e.ev = "call" /\ e.ret.status \notin {"SUCCESS", "Ok"}

\* C16: in new, create_surface and create_device a failed step is the last
\* thing the operation does: it returns an error and never a success, an
\* error is returned only after a failed step, and no fallible call is
\* issued twice within one invocation.
C16_FailuresReturned ==
  TraceOp \in {"new", "create_surface", "create_device"} =>
    /\ \A i \in 1..Len(trace) :
         Failed(trace[i]) =>
           /\ i = Len(trace)
           /\ Returned(TraceOp)
           /\ ~result.ok
    /\ (Returned(TraceOp) /\ ~result.ok) =>
         (trace # <<>> /\ Failed(trace[Len(trace)]))
    /\ \A fn \in FallibleCalls : Len(CallsOf(trace, fn)) <= 1

\* new has returned an error after its messenger registration failed
C16_Witness ==
  /\ Returned("new")
  /\ ~result.ok
  /\ Len(trace) = 2
  /\ Failed(trace[2])

(* ---------------- C17 ---------------- *)
\* the step is one of create_surface, create_device or handle (a handle
\* that follows a handle changes nothing at all)
BorrowingStep ==
  \/ counts'.calls # counts.calls
  \/ result'.op = "handle" /\ result.op # "handle"

\* the native instances and messengers that are live
InstanceObjects(nat) == {o \in nat : o.kind \in {"instance", "messenger"}}

\* C17: create_surface, create_device and handle, whether they succeed or
\* fail, leave the Instance value as it was (entry point, instance handle,
\* loader, messenger handle), leave the native instance and messenger live,
\* and call neither destroy_instance nor destroy_debug_utils_messenger.
C17_InstanceOnlyBorrowed ==
  [][BorrowingStep =>
       /\ self_ # None
       /\ self_' = self_
       /\ InstanceObjects(native') = InstanceObjects(native)
       /\ self_[1].instance \in NativeIds("instance")
       /\ \A i \in 1..Len(trace') :
            trace'[i].fn \notin {"destroy_instance",
                                 "destroy_debug_utils_messenger"}]_vars

\* create_device has failed on an Instance that is still held and live
C17_Witness ==
  /\ Returned("create_device")
  /\ ~result.ok
  /\ self_ # None
  /\ self_[1].instance \in NativeIds("instance")

(* ---------------- C18 ---------------- *)
\* C18: dropping an Instance made without validation does nothing in the
\* messenger step (no call, no log entry, the instance still live) and then
\* issues destroy_instance once, for that Instance's handle, and no
\* destroy-messenger call at all.
C18_NoMessengerNoTeardown ==
  /\ (locals.op = "drop" /\ MadeWithoutValidation(locals.self.instance)) =>
       /\ locals.self.dbg_loader = None
       /\ trace = <<>>
       /\ locals.self.instance \in NativeIds("instance")
  /\ (Returned("drop") /\ MadeWithoutValidation(result.arg.instance)) =>
       /\ CallNames(trace) = <<"destroy_instance">>
       /\ CallsOf(trace, "destroy_instance")[1].arg = result.arg.instance
       /\ result.arg.instance \notin NativeIds("instance")

\* an Instance made without validation has been dropped
C18_Witness ==
  /\ Returned("drop")
  /\ MadeWithoutValidation(result.arg.instance)
  /\ Len(CallsOf(trace, "destroy_instance")) = 1

====
